---- MODULE Spec2Model ----
(***************************************************************************)
(* A model of the GLM provider of langextract-glmprovider                  *)
(* (src/langextract-glmprovider/langextract_glmprovider/provider.py):      *)
(* the schema builder GLMProviderSchema.from_examples and the provider     *)
(* GLMProviderLanguageModel with its construction, schema state, request   *)
(* payloads, persistent transport field, the blocking generator infer and  *)
(* the coroutines infer_async and aclose; and the provider registry the    *)
(* plugin registers itself with.                                           *)
(***************************************************************************)
EXTENDS Integers, Naturals, Sequences, FiniteSets, TLC

VARIABLES
    constructed,        \* "no" | "ok" | "config_error": outcome of __init__
    init_args,          \* history: the arguments __init__ was called with
    model_id,           \* self.model_id
    api_key,            \* self.api_key
    temperature,        \* self.temperature
    verify_ssl,         \* self.verify_ssl
    response_schema,    \* self.response_schema (NoSchema is Python's None)
    structured_output,  \* self.structured_output
    client,             \* self._client: FieldDefault, NoClient (None) or a handle id
    handles,            \* every httpx.AsyncClient created so far, by id
    calls,              \* the calls in progress or finished, one per task
    applied,            \* history: the arguments of the apply_schema calls
    examples_data,      \* the argument of from_examples
    schema_dict,        \* the schema from_examples returned (NotBuilt before)
    registry,           \* the registry's entries, in the order of registration
    plugins_loaded,     \* load_plugins_once has run in this process
    requests,           \* history: how often loading and the GLM pair were requested
    resolved            \* the last registry.resolve call: what it saw and returned

vars == <<constructed, init_args, model_id, api_key, temperature, verify_ssl,
          response_schema, structured_output, client, handles, calls, applied,
          examples_data, schema_dict, registry, plugins_loaded, requests,
          resolved>>

\* What only __init__ assigns, and what only the registry's operations change.
settings == <<init_args, model_id, temperature, verify_ssl>>
registryVars == <<registry, plugins_loaded, requests, resolved>>
providerVars == <<constructed, settings, api_key, response_schema,
                  structured_output, client, handles, calls, applied,
                  examples_data, schema_dict>>

(***************************************************************************)
(* Bounds of the model.                                                    *)
(***************************************************************************)
MaxPrompts == 3      \* prompts in one batch
MaxHandles == 2      \* transports created in one behaviour
MaxApplies == 4      \* apply_schema calls recorded in the history
MaxExamples == 2     \* examples in one from_examples input
MaxExtractions == 3  \* extractions in one from_examples input, all examples
MaxEntries == 3      \* entries in the registry
MaxRequests == 2     \* requests to load the plugins, and to register the GLM pair

(***************************************************************************)
(* GLMProviderSchema.from_examples                                         *)
(***************************************************************************)
Classes == {"A", "B"}
AttrKeys == {"k1", "k2"}

\* The order sorted() gives the attribute keys.
KeyRank(k) == IF k = "k1" THEN 1 ELSE 2

\* An extraction, as far as from_examples reads it: its class and the keys of
\* its attributes (no keys: attributes is None or an empty dict, both falsy).
Extractions ==
    { [extraction_class |-> c, attributes |-> a] :
        c \in Classes, a \in {{}, {"k1"}, {"k2"}} }

RECURSIVE SeqsUpTo(_, _)
SeqsUpTo(S, n) ==
    IF n = 0 THEN {<<>>}
    ELSE LET shorter == SeqsUpTo(S, n - 1)
         IN  shorter \cup { Append(s, x) : s \in {q \in shorter : Len(q) = n - 1}, x \in S }

\* The inputs of from_examples: at most n examples, an example being its
\* sequence of extractions, with at most budget extractions in all.
RECURSIVE InputsWithin(_, _)
InputsWithin(n, budget) ==
    IF n = 0 THEN {<<>>}
    ELSE {<<>>} \cup
         UNION { { <<e>> \o rest : rest \in InputsWithin(n - 1, budget - Len(e)) } :
                   e \in SeqsUpTo(Extractions, budget) }

ExampleInputs == InputsWithin(MaxExamples, MaxExtractions)

\* The extractions in the order the two nested for loops visit them.
RECURSIVE Flatten(_)
Flatten(ss) == IF ss = <<>> THEN <<>> ELSE Head(ss) \o Flatten(Tail(ss))

Range(s) == { s[i] : i \in 1..Len(s) }

\* extraction_types.keys(): the classes in the order of their first occurrence.
RECURSIVE ExtractionTypeKeys(_)
ExtractionTypeKeys(es) ==
    IF es = <<>> THEN <<>>
    ELSE LET before == ExtractionTypeKeys(SubSeq(es, 1, Len(es) - 1))
             class_name == es[Len(es)].extraction_class
         IN  IF class_name \in Range(before) THEN before
             ELSE Append(before, class_name)

\* Variant of AllAttributes: only the keys of the first extraction's class.
AllAttributesClassScopedMut(es) ==
    IF es = <<>> THEN {}
    ELSE UNION { es[i].attributes :
                   i \in {j \in 1..Len(es) : es[j].extraction_class = es[1].extraction_class} }

\* all_attributes: updated with the keys of every extraction whose attributes
\* are truthy.
AllAttributes(es) ==
    UNION { es[i].attributes : i \in {j \in 1..Len(es) : es[j].attributes # {}} }

\* sorted(all_attributes)
RECURSIVE Sorted(_)
Sorted(S) ==
    IF S = {} THEN <<>>
    ELSE LET least == CHOOSE k \in S : \A o \in S : KeyRank(k) <= KeyRank(o)
         IN  <<least>> \o Sorted(S \ {least})

StringType == [type |-> "string"]

FallbackSchema ==
    [type |-> "object",
     properties |-> [extractions |-> [type |-> "array",
                                      items |-> [type |-> "object"]]]]

ConstrainedSchema(enum, attrs) ==
    [type |-> "object",
     properties |->
        [extractions |->
            [type |-> "array",
             items |->
                [type |-> "object",
                 properties |->
                    [extraction_class |-> [type |-> "string", enum |-> enum],
                     extraction_text |-> StringType,
                     attributes |->
                        [type |-> "object",
                         properties |-> [i \in 1..Len(attrs) |-> <<attrs[i], StringType>>],
                         additionalProperties |-> FALSE]],
                 required |-> <<"extraction_class", "extraction_text">>,
                 additionalProperties |-> FALSE]]],
     required |-> <<"extractions">>,
     additionalProperties |-> FALSE]

\* Variant of from_examples: the constrained shape even with nothing seen.
from_examples_NoFallbackMut(examples) ==
    ConstrainedSchema(ExtractionTypeKeys(Flatten(examples)),
                      Sorted(AllAttributes(Flatten(examples))))

from_examples(examples) ==
    LET es == Flatten(examples)
        extraction_types == ExtractionTypeKeys(es)
    IN  IF extraction_types # <<>>
        THEN ConstrainedSchema(extraction_types, Sorted(AllAttributes(es)))
        ELSE FallbackSchema

NotBuilt == [type |-> "not built"]

\* schema = GLMProviderSchema.from_examples(examples)
FromExamples ==
    /\ schema_dict = NotBuilt
    /\ schema_dict' = from_examples(examples_data)
    /\ UNCHANGED examples_data


(***************************************************************************)
(* GLMProviderLanguageModel: values                                        *)
(***************************************************************************)
\* A Python value that is None or a string.
PyNone == [is_none |-> TRUE, text |-> ""]
PyStr(s) == [is_none |-> FALSE, text |-> s]
ApiKeys == {PyNone, PyStr(""), PyStr("sk-test")}

\* Variant of ApiKeyMissing: an empty key passes.
ApiKeyMissingOnlyNoneMut(key) == key.is_none

\* not self.api_key
ApiKeyMissing(key) == key.is_none \/ key.text = ""

\* response_schema = None
NoSchema == [type |-> "None"]

\* Variant of to_provider_config: the flag is left off.
to_provider_config_NoFlagMut(dict) == [response_schema |-> dict, structured_output |-> FALSE]

\* GLMProviderSchema.to_provider_config
to_provider_config(dict) == [response_schema |-> dict, structured_output |-> TRUE]

\* The schema instances handed to apply_schema and to the constructor: built
\* by from_examples from no example, and from examples of either class.
SampleExamples ==
    { <<>>,
      << <<[extraction_class |-> "A", attributes |-> {"k1"}]>> >>,
      << <<[extraction_class |-> "B", attributes |-> {}]>>,
         <<[extraction_class |-> "A", attributes |-> {"k2"}]>> >> }

\* Variant of SchemaConfig: None keeps what was attached.
SchemaConfigMergeMut(schema_instance, old) ==
    IF ~schema_instance.is_none
    THEN to_provider_config(schema_instance.schema_dict)
    ELSE old

\* apply_schema: the configuration it leaves, old being the one it found.
SchemaConfig(schema_instance, old) ==
    IF ~schema_instance.is_none
    THEN LET config == to_provider_config(schema_instance.schema_dict)
         IN  [response_schema |-> config.response_schema,
              structured_output |-> config.structured_output]
    ELSE [response_schema |-> NoSchema, structured_output |-> FALSE]

SchemaInstances ==
    { [is_none |-> FALSE, schema_dict |-> from_examples(e)] : e \in SampleExamples }
NoSchemaInstance == [is_none |-> TRUE, schema_dict |-> NoSchema]
SchemaArguments == SchemaInstances \cup {NoSchemaInstance}

\* **kwargs of __init__, as far as it reads them: absent keys are None.
NoKwargs == [has_response_schema |-> FALSE, response_schema |-> NoSchema,
             has_structured_output |-> FALSE, structured_output |-> FALSE]
KwargsOf(config) ==
    [has_response_schema |-> TRUE, response_schema |-> config.response_schema,
     has_structured_output |-> TRUE, structured_output |-> config.structured_output]
ConstructorKwargs ==
    {NoKwargs} \cup { KwargsOf(to_provider_config(FallbackSchema)) }

\* The keyword arguments that carry a flag or a schema alone.
SchemaKwargs ==
    ConstructorKwargs \cup
    { [has_response_schema |-> FALSE, response_schema |-> NoSchema,
       has_structured_output |-> TRUE, structured_output |-> TRUE],
      [has_response_schema |-> TRUE, response_schema |-> FallbackSchema,
       has_structured_output |-> FALSE, structured_output |-> FALSE] }

\* An argument of __init__ that may be left out.
Absent == [given |-> FALSE, value |-> "absent"]
Given(v) == [given |-> TRUE, value |-> v]
ArgOr(arg, default) == IF arg.given THEN arg.value ELSE default

\* The defaults of __init__'s parameters.
DefaultModelId == "glm-4"
DefaultTemperature == "0.0"

\* Variant of DefaultVerifySsl: the value of the class attribute.
DefaultVerifySslDisabledMut == "False"

\* verify_ssl: bool | str = True
DefaultVerifySsl == "True"

\* The class attributes an object has before __init__ assigns its own.
ClassVerifySsl == "False"
Unset == "unset"

ModelIdArguments == {Absent, Given("glm-4-air")}
TemperatureArguments == {Absent, Given("0.7")}
VerifyArguments == {Absent, Given("True"), Given("False"), Given("/etc/ssl/ca.pem")}

NoInitArgs ==
    [model_id |-> Absent, api_key |-> PyNone, temperature |-> Absent,
     verify_ssl |-> Absent, kwargs |-> NoKwargs]

\* _client = dataclasses.field(repr=False, compare=False, default=None) in a
\* class that is no dataclass: the attribute is the Field object itself, which
\* is truthy, is not None, and has neither post nor aclose.
FieldDefault == -1

NoClient == 0

Prompts == {"a", "b"}
Batches == SeqsUpTo(Prompts, MaxPrompts)

(***************************************************************************)
(* _execute_single: the request payload                                    *)
(***************************************************************************)
\* **kwargs of infer and infer_async: the names the caller supplied, with
\* their values.
CallKeys ==
    {"temperature", "max_tokens", "top_p", "frequency_penalty", "presence_penalty",
     "stop"}
ParamValues == {"1", "2"}
NoCallKwargs == [k \in {} |-> "1"]
CallKwargs ==
    {NoCallKwargs} \cup { [k \in {key} |-> v] : key \in CallKeys, v \in ParamValues }
      \cup { [k \in CallKeys |-> v] : v \in ParamValues }
      \cup { [k \in {"top_p", "stop"} |-> IF k = "stop" THEN "1" ELSE "2"] }

\* Variant of PassedThrough: every keyword argument goes into the payload.
PassedThroughAllMut(kwargs) == DOMAIN kwargs \ {"temperature"}

\* for key in ["max_tokens", "top_p", "frequency_penalty", "presence_penalty"]:
\*     if key in kwargs
PassedThrough(kwargs) ==
    {"max_tokens", "top_p", "frequency_penalty", "presence_penalty"} \cap DOMAIN kwargs

\* The fields of the provider that _execute_single reads.
Self ==
    [model_id |-> model_id, temperature |-> temperature,
     structured_output |-> structured_output]

NoPayload == [k \in {} |-> "1"]

\* payload, as it is when client.post is called.
RequestPayload(self, prompt, kwargs) ==
    LET base == [model |-> self.model_id,
                 messages |-> <<[role |-> "user", content |-> prompt]>>,
                 temperature |-> IF "temperature" \in DOMAIN kwargs
                                 THEN kwargs["temperature"] ELSE self.temperature]
        optional == [key \in PassedThrough(kwargs) |-> kwargs[key]]
    IN  IF self.structured_output
        THEN (base @@ optional) @@ [response_format |-> [type |-> "json_object"]]
        ELSE base @@ optional

(***************************************************************************)
(* _execute_single: the response                                           *)
(***************************************************************************)
\* What the remote model answers to a prompt.
Completion(prompt) == <<"completion of", prompt>>

\* lx.core.types.ScoredOutput(score=1.0, output=content)
ScoredOutput(content) == [score |-> 1, output |-> content]

\* What the transport does with one request: it delivers a response ("ok"; a
\* 200 whose body is the object {}, has an empty choices list, has a first
\* choice whose message is null, has a number for choices, is the value true,
\* is not JSON, is nested deeper than the parser's recursion allows, has an
\* integer of more digits than int() converts, or does not decode in the
\* encoding its first bytes announce; an error status with an error body; an
\* error status whose body has choices all the same), or it fails to.
Outcomes ==
    {"ok", "missing_key", "empty_choices", "null_message", "number_choices",
     "boolean_body", "not_json", "too_deep", "huge_integer", "undecodable",
     "non_2xx", "non_2xx_with_choices", "timeout", "network_error"}
ResponseOutcomes ==
    {"ok", "missing_key", "empty_choices", "null_message", "number_choices",
     "boolean_body", "not_json", "too_deep", "huge_integer", "undecodable",
     "non_2xx", "non_2xx_with_choices"}

\* JSON values of a body, as response.json() gives them: None, a dict, a
\* list, a str, a number or a bool, each with its type.
JsonNull == [type |-> "null"]
JsonObject(fields) == [type |-> "object", fields |-> fields]
JsonArray(items) == [type |-> "array", items |-> items]
JsonString(text) == [type |-> "string", text |-> text]
JsonNumber(number) == [type |-> "number", number |-> number]
JsonBoolean(truth) == [type |-> "boolean", truth |-> truth]
EmptyObject == JsonObject([key \in {} |-> ""])

\* value[key] with a str key: the value of the key of a dict, KeyError on a
\* dict without it, TypeError on None, on a list, on a str, on a number and on
\* a bool.
GetItem(value, key) ==
    IF value.type = "object"
    THEN IF key \in DOMAIN value.fields
         THEN [ok |-> TRUE, value |-> value.fields[key], exc |-> "none"]
         ELSE [ok |-> FALSE, value |-> JsonNull, exc |-> "KeyError"]
    ELSE [ok |-> FALSE, value |-> JsonNull, exc |-> "TypeError"]

\* value[0]: the first element of a list, IndexError on an empty list or str,
\* KeyError on a dict (its keys are strs), TypeError on None, on a number and
\* on a bool; of a str that is not empty its first character, a str.
GetFirst(value) ==
    CASE value.type = "array" ->
           IF Len(value.items) = 0
           THEN [ok |-> FALSE, value |-> JsonNull, exc |-> "IndexError"]
           ELSE [ok |-> TRUE, value |-> value.items[1], exc |-> "none"]
      [] value.type = "string" ->
           IF value.text = ""
           THEN [ok |-> FALSE, value |-> JsonNull, exc |-> "IndexError"]
           ELSE [ok |-> TRUE, value |-> JsonString("first character"), exc |-> "none"]
      [] value.type = "object" -> [ok |-> FALSE, value |-> JsonNull, exc |-> "KeyError"]
      [] value.type \in {"null", "number", "boolean"} ->
           [ok |-> FALSE, value |-> JsonNull, exc |-> "TypeError"]

\* The Python value of the content: the text of a str, the number of a
\* number, the truth of a bool, the value otherwise.
ContentValue(value) ==
    CASE value.type = "string" -> value.text
      [] value.type = "number" -> value.number
      [] value.type = "boolean" -> value.truth
      [] OTHER -> value

\* One element of choices, with the content of its message.
Choice(content) ==
    JsonObject([message |-> JsonObject([content |-> JsonString(content)])])

\* A response whose body is the JSON text of a value, in UTF-8, UTF-16 or
\* UTF-32.
JsonResponse(status_code, body) ==
    [status_code |-> status_code, decodable |-> TRUE, syntax |-> "json", body |-> body]

\* A response whose body is not the text of a value: bytes that do not decode
\* in the encoding json detects from the first of them (decodable FALSE), or a
\* text the parser gives up on ("not_json", "too_deep", "huge_integer").
TextResponse(status_code, decodable, syntax) ==
    [status_code |-> status_code, decodable |-> decodable, syntax |-> syntax,
     body |-> JsonNull]

\* The response of an outcome that delivers one: its status, whether its
\* bytes decode, what the parser makes of the text, and the value of the body.
ResponseOf(prompt, outcome) ==
    CASE outcome = "ok" ->
           JsonResponse(200, JsonObject([choices |->
               JsonArray(<<Choice(Completion(prompt)), Choice("another choice")>>)]))
      [] outcome = "missing_key" -> JsonResponse(200, EmptyObject)
      [] outcome = "empty_choices" ->
           JsonResponse(200, JsonObject([choices |-> JsonArray(<<>>)]))
      [] outcome = "null_message" ->
           JsonResponse(200, JsonObject([choices |->
               JsonArray(<<JsonObject([message |-> JsonNull])>>)]))
      [] outcome = "number_choices" ->
           JsonResponse(200, JsonObject([choices |-> JsonNumber(5)]))
      [] outcome = "boolean_body" -> JsonResponse(200, JsonBoolean(TRUE))
      [] outcome = "not_json" -> TextResponse(200, TRUE, "not_json")
      [] outcome = "too_deep" -> TextResponse(200, TRUE, "too_deep")
      [] outcome = "huge_integer" -> TextResponse(200, TRUE, "huge_integer")
      [] outcome = "undecodable" -> TextResponse(200, FALSE, "not_json")
      [] outcome = "non_2xx" ->
           JsonResponse(500, JsonObject([error |-> JsonString("server error")]))
      [] outcome = "non_2xx_with_choices" ->
           JsonResponse(404, JsonObject([choices |-> JsonArray(<<Choice("not found")>>)]))

\* Variant of RaisesForStatus: only the server's errors raise.
RaisesForStatusServerOnlyMut(status_code) == status_code >= 500

\* response.raise_for_status()
RaisesForStatus(status_code) == status_code \notin 200..299

\* response.json(): json.loads of the body's bytes. It decodes them in the
\* encoding their first bytes announce (UTF-8, UTF-16 or UTF-32) and raises
\* UnicodeDecodeError when they do not decode; of the text it raises
\* JSONDecodeError when it is not JSON, RecursionError when it is nested too
\* deep and ValueError when an integer has more digits than int() converts.
Json(response) ==
    IF ~response.decodable
    THEN [ok |-> FALSE, value |-> JsonNull, exc |-> "UnicodeDecodeError"]
    ELSE CASE response.syntax = "json" ->
                [ok |-> TRUE, value |-> response.body, exc |-> "none"]
           [] response.syntax = "not_json" ->
                [ok |-> FALSE, value |-> JsonNull, exc |-> "JSONDecodeError"]
           [] response.syntax = "too_deep" ->
                [ok |-> FALSE, value |-> JsonNull, exc |-> "RecursionError"]
           [] response.syntax = "huge_integer" ->
                [ok |-> FALSE, value |-> JsonNull, exc |-> "ValueError"]

\* response.json() and response_data["choices"][0]["message"]["content"]: the
\* content, or the exception of the first step that fails: of json(), or of a
\* subscript as GetItem and GetFirst say.
ParseContent(response) ==
    IF ~Json(response).ok
    THEN [ok |-> FALSE, content |-> "", exc |-> Json(response).exc]
    ELSE LET response_data == Json(response).value
             choices == GetItem(response_data, "choices")
             first == GetFirst(choices.value)
             message == GetItem(first.value, "message")
             content == GetItem(message.value, "content")
             failed == CASE ~choices.ok -> choices.exc
                         [] choices.ok /\ ~first.ok -> first.exc
                         [] choices.ok /\ first.ok /\ ~message.ok -> message.exc
                         [] OTHER -> content.exc
         IN  IF choices.ok /\ first.ok /\ message.ok /\ content.ok
             THEN [ok |-> TRUE, content |-> ContentValue(content.value), exc |-> "none"]
             ELSE [ok |-> FALSE, content |-> "", exc |-> failed]

\* The exception _execute_single lets out for an outcome: client.post raises
\* on a network error and on a timeout, raise_for_status on a non-2xx status,
\* and the parse on a 200 without choices[0].message.content.
ExceptionOf(outcome) ==
    CASE outcome = "network_error" -> "ConnectError"
      [] outcome = "timeout" -> "TimeoutException"
      [] outcome \in {"non_2xx", "non_2xx_with_choices"} -> "HTTPStatusError"
      [] outcome \in {"missing_key", "empty_choices", "null_message", "number_choices",
                       "boolean_body", "not_json", "too_deep", "huge_integer",
                       "undecodable"} ->
           ParseContent(ResponseOf("a", outcome)).exc

NoError == [kind |-> "none", original |-> "none"]

\* Variant of InferenceRuntimeError: the exception escapes as it is.
InferenceRuntimeErrorUnwrappedMut(e) == [kind |-> e, original |-> "none"]

\* raise lx.exceptions.InferenceRuntimeError(..., original=e) from e
InferenceRuntimeError(e) == [kind |-> "InferenceRuntimeError", original |-> e]

\* results.append(result)
AppendResult(results, result) == Append(results, result)

\* _execute_single, from the response on: the result, or the exception.
ExecuteSingle(prompt, outcome) ==
    IF outcome \notin ResponseOutcomes
    THEN [ok |-> FALSE, result |-> <<>>, exc |-> ExceptionOf(outcome)]
    ELSE LET response == ResponseOf(prompt, outcome)
         IN  IF RaisesForStatus(response.status_code)
             THEN [ok |-> FALSE, result |-> <<>>, exc |-> "HTTPStatusError"]
             ELSE LET parsed == ParseContent(response)
                  IN  IF ~parsed.ok
                      THEN [ok |-> FALSE, result |-> <<>>, exc |-> parsed.exc]
                      ELSE [ok |-> TRUE, result |-> <<ScoredOutput(parsed.content)>>,
                            exc |-> "none"]

(***************************************************************************)
(* The provider registry: values                                           *)
(***************************************************************************)
\* Model ids and patterns are sequences of characters.
Id_glm4 == <<"g", "l", "m", "-", "4">>
Id_glm4air == <<"g", "l", "m", "-", "4", "-", "a", "i", "r">>
Id_glm == <<"g", "l", "m">>
Id_unknown == <<"u", "n", "k", "n", "o", "w", "n", "-", "m", "o", "d", "e", "l">>
Id_model == <<"m", "o", "d", "e", "l">>
ModelIds == {Id_glm4, Id_glm4air, Id_glm, Id_unknown}

\* Variant of GLMPattern: the dash is missing.
GLMPatternNoDashMut == <<"^", "g", "l", "m", "4">>

\* @lx.providers.registry.register(r"^glm-", priority=10)
\* class GLMProviderLanguageModel
GLMPattern == <<"^", "g", "l", "m", "-">>
GLMPriority == 10
GLMProviderClass == "GLMProviderLanguageModel"

\* What other providers of the process register.
OtherClass == "OtherLanguageModel"
OtherPatterns == {<<"^", "g", "l", "m">>, <<"^", "g", "l", "m", "-">>}
OtherPriorities == {10, 20}
Registrations ==
    { [pattern |-> GLMPattern, target |-> GLMProviderClass, priority |-> GLMPriority] }
      \cup { [pattern |-> pt, target |-> OtherClass, priority |-> pr] :
               pt \in OtherPatterns, pr \in OtherPriorities }

IsPrefix(q, r) == Len(q) <= Len(r) /\ SubSeq(r, 1, Len(q)) = q

\* A pattern "^literal" matches the ids that start with the literal.
Matches(pattern, id) == Head(pattern) = "^" /\ IsPrefix(Tail(pattern), id)

\* Variant of AlreadyRegistered: every registration adds an entry.
AlreadyRegisteredNeverMut(entries, pattern, target) == FALSE

\* register: the pattern/class pair has an entry.
AlreadyRegistered(entries, pattern, target) ==
    \E i \in 1..Len(entries) :
        entries[i].pattern = pattern /\ entries[i].target = target

\* register(pattern, priority)(target): the entries afterwards.
Registered(entries, entry) ==
    IF AlreadyRegistered(entries, entry.pattern, entry.target)
    THEN entries ELSE Append(entries, entry)

\* Variant of Outranks: an equal priority replaces the earlier entry.
OutranksOrTiesMut(candidate, best) == candidate.priority >= best.priority

\* resolve: a later match replaces the best so far only with a higher priority.
Outranks(candidate, best) == candidate.priority > best.priority

\* resolve: the scan of the entries from i on, best being the index of the
\* best match so far (0: none).
RECURSIVE ResolveScan(_, _, _, _)
ResolveScan(entries, id, i, best) ==
    IF i > Len(entries) THEN best
    ELSE IF Matches(entries[i].pattern, id)
              /\ (best = 0 \/ Outranks(entries[i], entries[best]))
         THEN ResolveScan(entries, id, i + 1, i)
         ELSE ResolveScan(entries, id, i + 1, best)

NotResolved ==
    [model_id |-> <<>>, outcome |-> "none", target |-> "none", entries |-> <<>>,
     loaded |-> FALSE]

\* registry.resolve(model_id): the provider class, or NoProviderFound.
resolve(entries, id) ==
    LET best == ResolveScan(entries, id, 1, 0)
    IN  IF best = 0 THEN [outcome |-> "NoProviderFound", target |-> "none"]
        ELSE [outcome |-> "found", target |-> entries[best].target]

\* test_plugin.py: PATTERNS, and the environment's glm_model_id (unset: None).
PATTERNS == << <<"^", "g", "l", "m">> >>
NoEnv == <<>>

\* The characters of [A-Za-z0-9._-] among those of the model.
IdChars ==
    {"g", "l", "m", "-", "4", "a", "i", "r", "u", "n", "k", "o", "w", "d", "e"}

\* re.sub(r"^\^", "", pattern)
StripCaret(pattern) ==
    IF pattern # <<>> /\ Head(pattern) = "^" THEN Tail(pattern) ELSE pattern

\* re.match(r"[A-Za-z0-9._-]+", base): the leading run of id characters.
RECURSIVE LeadingIdChars(_)
LeadingIdChars(q) ==
    IF q = <<>> \/ Head(q) \notin IdChars THEN <<>>
    ELSE <<Head(q)>> \o LeadingIdChars(Tail(q))

\* _example_id(pattern), env_model_id being the module's model_id
example_id(pattern, env_model_id) ==
    LET stripped == StripCaret(pattern)
        m == LeadingIdChars(stripped)
        base == IF m # <<>> THEN m ELSE IF stripped # <<>> THEN stripped ELSE Id_model
    IN  IF env_model_id # <<>> THEN env_model_id ELSE base

\* sample_ids = [_example_id(p) for p in PATTERNS]; sample_ids.append("unknown-model")
sample_ids(env_model_id) ==
    Append([i \in 1..Len(PATTERNS) |-> example_id(PATTERNS[i], env_model_id)], Id_unknown)

(***************************************************************************)
(* Transport handles                                                       *)
(***************************************************************************)
\* httpx.AsyncClient(..., verify=verify): open, never torn down, no request
\* sent on it yet, and none refused.
NewHandle(owner, verify) ==
    [open |-> TRUE, teardowns |-> 0, owner |-> owner, used |-> FALSE,
     refused |-> FALSE, verify |-> verify]

\* client.aclose(): one teardown of the handle.
Teardown(hs, h) ==
    IF hs[h].open
    THEN [hs EXCEPT ![h].open = FALSE, ![h].teardowns = @ + 1]
    ELSE hs

\* Variant of AsyncWithExit: the client is left open.
AsyncWithExitLeakMut(hs, h) == hs

\* The exit of infer's "async with httpx.AsyncClient(...) as client".
AsyncWithExit(hs, h) == Teardown(hs, h)

\* infer: "async with httpx.AsyncClient(...) as client", hs being the handles
\* with the new one: the call works on the client it has just opened.
InferClient(hs) == Len(hs)

\* _ensure_client: "if self._client is None"
EnsureClientCreates(c) == c = NoClient

\* aclose: "if self._client"
AcloseGuard(c) == c # NoClient

\* aclose: "self._client = None"
ClientAfterClose(c) == NoClient

(***************************************************************************)
(* Calls                                                                   *)
(***************************************************************************)
Tasks == {1, 2, 3}
SeqTasks == {1}
ConcTasks == {1, 2, 3}
ConcBatches == {<<>>, <<"a">>, <<"b">>, <<"a", "b">>}

IdleCall ==
    [kind |-> "none", pc |-> "idle", prompts |-> <<>>, kwargs |-> NoCallKwargs,
     i |-> 0, results |-> <<>>, client |-> NoClient, error |-> NoError,
     yielded |-> 0, in_loop |-> FALSE, sent |-> 0, posted |-> <<>>,
     payload |-> NoPayload, responses |-> <<>>, last_outcome |-> "none"]

\* A task may start a call unless it is inside one, waiting on the network.
CanStart(t) == calls[t].pc \notin {"await", "closing"}

\* Variant of PromptAt: the batch is walked from its end.
PromptAtReversedMut(c) == c.prompts[Len(c.prompts) - c.i + 1]

\* "for prompt in batch_prompts": the prompt of the loop's i-th round.
PromptAt(c) == c.prompts[c.i]

\* Variant of OuterExcept: the exception escapes as it is.
OuterExceptReraiseMut(e) == [kind |-> e, original |-> "none"]

\* infer's outer handler, for an exception that is no InferenceRuntimeError:
\* raise lx.exceptions.InferenceRuntimeError(..., original=e) from e
OuterExcept(e) == [kind |-> "InferenceRuntimeError", original |-> e]

\* Variant of Raise: the failed request is sent again.
RaiseRetryMut(c, hs, exc) ==
    [call |-> [c EXCEPT !.pc = "await", !.sent = @ + 1], handles |-> hs]

\* The except clause of the loop (and, in infer, the exit of the async with
\* the exception passes through).
Raise(c, hs, exc) ==
    [call |-> [c EXCEPT !.pc = "raised", !.error = InferenceRuntimeError(exc)],
     handles |-> IF c.kind = "infer" THEN AsyncWithExit(hs, c.client) ELSE hs]

\* _execute_single up to "await client.post": the payload for prompt c.i is
\* built, then the request goes out on the call's client. The Field object has
\* no post (AttributeError), and a closed client refuses the request with
\* RuntimeError.
Post(c, hs) ==
    LET built == [c EXCEPT !.payload = RequestPayload(Self, PromptAt(c), c.kwargs)]
    IN  IF c.client = FieldDefault
        THEN Raise(built, hs, "AttributeError")
        ELSE IF hs[c.client].open
        THEN [call |-> [built EXCEPT !.pc = "await", !.sent = @ + 1,
                                     !.posted = Append(@, PromptAt(c))],
              handles |-> [hs EXCEPT ![c.client].used = TRUE]]
        ELSE Raise(built, [hs EXCEPT ![c.client].refused = TRUE], "RuntimeError")

\* Variant of Finish: infer yields from inside its async with.
FinishYieldsInsideWithMut(c, hs) ==
    [call |-> IF c.kind = "infer_async" \/ c.results = <<>>
              THEN [c EXCEPT !.pc = "returned"]
              ELSE [c EXCEPT !.pc = "suspended", !.yielded = 1],
     handles |-> hs]

\* The loop is exhausted: infer_async returns results; infer leaves its async
\* with, asyncio.run returns and the generator yields results[0], or ends
\* when there is nothing to yield.
Finish(c, hs) ==
    IF c.kind = "infer_async"
    THEN [call |-> [c EXCEPT !.pc = "returned"], handles |-> hs]
    ELSE [call |-> IF c.results = <<>> THEN [c EXCEPT !.pc = "returned"]
                   ELSE [c EXCEPT !.pc = "suspended", !.yielded = 1],
          handles |-> AsyncWithExit(hs, c.client)]

\* "for prompt in batch_prompts": the next prompt, or the end of the loop.
Advance(c, hs) ==
    IF c.i < Len(c.prompts) THEN Post([c EXCEPT !.i = @ + 1], hs) ELSE Finish(c, hs)

(***************************************************************************)
(* Operations                                                              *)
(***************************************************************************)
ProviderInit ==
    /\ constructed = "no"
    /\ init_args = NoInitArgs
    /\ model_id = Unset
    /\ api_key = Unset
    /\ temperature = Unset
    /\ verify_ssl = ClassVerifySsl
    /\ response_schema = NoSchema
    /\ structured_output = FALSE
    /\ client = FieldDefault
    /\ handles = <<>>
    /\ calls = [t \in Tasks |-> IdleCall]
    /\ applied = <<>>
    /\ registry = <<>>
    /\ plugins_loaded = FALSE
    /\ requests = [loads |-> 0, registers |-> 0]
    /\ resolved = NotResolved

Init ==
    /\ ProviderInit
    /\ examples_data = <<>>
    /\ schema_dict = NotBuilt

\* Before from_examples is called: any input within the bounds.
SchemaInit ==
    /\ ProviderInit
    /\ examples_data \in ExampleInputs
    /\ schema_dict = NotBuilt

\* GLMProviderLanguageModel.__init__(model_id, api_key, temperature=...,
\* verify_ssl=..., **kwargs)
Construct(mid, key, temp, verify, kwargs) ==
    /\ constructed = "no"
    /\ init_args' = [model_id |-> mid, api_key |-> key, temperature |-> temp,
                     verify_ssl |-> verify, kwargs |-> kwargs]
    /\ model_id' = ArgOr(mid, DefaultModelId)
    /\ api_key' = key
    /\ temperature' = ArgOr(temp, DefaultTemperature)
    /\ verify_ssl' = ArgOr(verify, DefaultVerifySsl)
    /\ response_schema' = kwargs.response_schema
    /\ structured_output' =
          IF kwargs.has_structured_output THEN kwargs.structured_output ELSE FALSE
    /\ constructed' = IF ApiKeyMissing(key) THEN "config_error" ELSE "ok"
    /\ UNCHANGED <<client, handles, calls, applied, examples_data, schema_dict,
                   registryVars>>

\* Variant of ApplySchema: a change of schema drops the transport.
ApplySchemaResetsClientMut(schema_instance) ==
    /\ constructed = "ok"
    /\ LET config == SchemaConfig(schema_instance,
                                  [response_schema |-> response_schema,
                                   structured_output |-> structured_output])
       IN  /\ response_schema' = config.response_schema
           /\ structured_output' = config.structured_output
    /\ client' = NoClient
    /\ UNCHANGED <<constructed, settings, api_key, handles, calls,
                   examples_data, schema_dict, registryVars>>

\* apply_schema(schema_instance)
ApplySchema(schema_instance) ==
    /\ constructed = "ok"
    /\ LET config == SchemaConfig(schema_instance,
                                  [response_schema |-> response_schema,
                                   structured_output |-> structured_output])
       IN  /\ response_schema' = config.response_schema
           /\ structured_output' = config.structured_output
    /\ UNCHANGED <<constructed, settings, api_key, client, handles, calls,
                   examples_data, schema_dict, registryVars>>

\* infer_async(batch_prompts, **kwargs) up to its first wait: _ensure_client,
\* then the loop's first request on the client it returned.
InferAsync(t, batch_prompts, kwargs) ==
    /\ constructed = "ok"
    /\ CanStart(t)
    /\ EnsureClientCreates(client) => Len(handles) < MaxHandles
    /\ LET creates == EnsureClientCreates(client)
           hs == IF creates
                 THEN Append(handles, NewHandle("provider", verify_ssl)) ELSE handles
           c == IF creates THEN Len(hs) ELSE client
           next == Advance([IdleCall EXCEPT !.kind = "infer_async",
                                            !.prompts = batch_prompts,
                                            !.kwargs = kwargs,
                                            !.client = c], hs)
       IN  /\ client' = c
           /\ handles' = next.handles
           /\ calls' = [calls EXCEPT ![t] = next.call]
    /\ UNCHANGED <<constructed, settings, api_key, response_schema,
                   structured_output, applied, examples_data, schema_dict,
                   registryVars>>

\* infer(batch_prompts, **kwargs): the generator is created, nothing of its
\* body runs.
Infer(t, batch_prompts, kwargs) ==
    /\ constructed = "ok"
    /\ CanStart(t)
    /\ calls' = [calls EXCEPT ![t] = [IdleCall EXCEPT !.kind = "infer",
                                                     !.pc = "created",
                                                     !.prompts = batch_prompts,
                                                     !.kwargs = kwargs]]
    /\ UNCHANGED <<constructed, settings, api_key, response_schema,
                   structured_output, client, handles, applied, examples_data,
                   schema_dict, registryVars>>

\* next() on infer's generator. The first one runs the body: asyncio.run
\* refuses inside a running loop (in_loop: the caller of next() is inside a
\* running asyncio event loop), else the call opens its own client and sends
\* the first request. A later one yields the next result or ends.
InferNext(t, in_loop) ==
    /\ calls[t].kind = "infer"
    /\ \/ /\ calls[t].pc = "created"
          /\ in_loop
          /\ calls' = [calls EXCEPT ![t].pc = "raised",
                                    ![t].in_loop = TRUE,
                                    ![t].error = OuterExcept("RuntimeError")]
          /\ UNCHANGED handles
       \/ /\ calls[t].pc = "created"
          /\ ~in_loop
          /\ Len(handles) < MaxHandles
          /\ LET hs == Append(handles, NewHandle("infer", verify_ssl))
                 next == Advance([calls[t] EXCEPT !.client = InferClient(hs)], hs)
             IN  /\ handles' = next.handles
                 /\ calls' = [calls EXCEPT ![t] = next.call]
       \/ /\ calls[t].pc = "suspended"
          /\ calls' = IF calls[t].yielded < Len(calls[t].results)
                      THEN [calls EXCEPT ![t].yielded = @ + 1]
                      ELSE [calls EXCEPT ![t].pc = "returned"]
          /\ UNCHANGED handles
    /\ UNCHANGED <<constructed, settings, api_key, response_schema,
                   structured_output, client, applied, examples_data, schema_dict,
                   registryVars>>

\* The transport completes the request in flight: _execute_single returns or
\* raises, and the loop goes on to its next wait, or to its end.
Receive(t, outcome) ==
    /\ calls[t].pc = "await"
    /\ LET c == calls[t]
           r == ExecuteSingle(PromptAt(c), outcome)
           seen == [c EXCEPT !.last_outcome = outcome,
                             !.responses = IF outcome \in ResponseOutcomes
                                           THEN Append(@, ResponseOf(PromptAt(c), outcome))
                                           ELSE @]
           next == IF r.ok
                   THEN Advance([seen EXCEPT !.results = AppendResult(@, r.result)],
                                handles)
                   ELSE Raise(seen, handles, r.exc)
       IN  /\ handles' = next.handles
           /\ calls' = [calls EXCEPT ![t] = next.call]
    /\ UNCHANGED <<constructed, settings, api_key, response_schema,
                   structured_output, client, applied, examples_data, schema_dict,
                   registryVars>>

\* aclose(): nothing without a client; the Field object is truthy and has no
\* aclose, so the AttributeError escapes; on an open client the teardown begins
\* (the call waits), and after the wait self._client = None; on a client that
\* is closed already the client's aclose does nothing, and the call goes on at
\* once to self._client = None.
Aclose(t) ==
    /\ \/ /\ constructed = "ok"
          /\ CanStart(t)
          /\ IF ~AcloseGuard(client)
             THEN /\ calls' = [calls EXCEPT ![t] = [IdleCall EXCEPT !.kind = "aclose",
                                                                   !.pc = "returned"]]
                  /\ UNCHANGED <<client, handles>>
             ELSE IF client = FieldDefault
             THEN /\ calls' = [calls EXCEPT ![t] =
                                 [IdleCall EXCEPT !.kind = "aclose",
                                                  !.pc = "raised",
                                                  !.client = client,
                                                  !.error = [kind |-> "AttributeError",
                                                             original |-> "none"]]]
                  /\ UNCHANGED <<client, handles>>
             ELSE IF handles[client].open
             THEN /\ handles' = Teardown(handles, client)
                  /\ calls' = [calls EXCEPT ![t] = [IdleCall EXCEPT !.kind = "aclose",
                                                                   !.pc = "closing",
                                                                   !.client = client]]
                  /\ UNCHANGED client
             ELSE /\ handles' = Teardown(handles, client)
                  /\ client' = ClientAfterClose(client)
                  /\ calls' = [calls EXCEPT ![t] = [IdleCall EXCEPT !.kind = "aclose",
                                                                   !.pc = "returned",
                                                                   !.client = client]]
       \/ /\ calls[t].pc = "closing"
          /\ client' = ClientAfterClose(client)
          /\ calls' = [calls EXCEPT ![t].pc = "returned"]
          /\ UNCHANGED handles
    /\ UNCHANGED <<constructed, settings, api_key, response_schema,
                   structured_output, applied, examples_data, schema_dict,
                   registryVars>>

(***************************************************************************)
(* The provider registry: operations                                       *)
(***************************************************************************)
\* registry.register(pattern, priority=priority)(target)
Register(entry) ==
    /\ ~AlreadyRegistered(registry, entry.pattern, entry.target)
         => Len(registry) < MaxEntries
    /\ (entry.pattern = GLMPattern /\ entry.target = GLMProviderClass)
         => requests.registers < MaxRequests
    /\ registry' = Registered(registry, entry)
    /\ requests' = IF entry.pattern = GLMPattern /\ entry.target = GLMProviderClass
                   THEN [requests EXCEPT !.registers = @ + 1] ELSE requests
    /\ UNCHANGED <<plugins_loaded, resolved, providerVars>>

\* lx.providers.load_plugins_once(): the first request imports the plugin's
\* module, whose decorator registers the provider; a later one does nothing.
LoadPluginsOnce ==
    /\ requests.loads < MaxRequests
    /\ (~plugins_loaded /\ ~AlreadyRegistered(registry, GLMPattern, GLMProviderClass))
         => Len(registry) < MaxEntries
    /\ requests' = [requests EXCEPT !.loads = @ + 1]
    /\ plugins_loaded' = TRUE
    /\ registry' = IF plugins_loaded THEN registry
                   ELSE Registered(registry,
                                   [pattern |-> GLMPattern,
                                    target |-> GLMProviderClass,
                                    priority |-> GLMPriority])
    /\ UNCHANGED <<resolved, providerVars>>

\* registry.resolve(model_id)
Resolve(id) ==
    /\ resolved' = [model_id |-> id,
                    outcome |-> resolve(registry, id).outcome,
                    target |-> resolve(registry, id).target,
                    entries |-> registry,
                    loaded |-> plugins_loaded]
    /\ UNCHANGED <<registry, plugins_loaded, requests, providerVars>>

(***************************************************************************)
(* Specifications                                                          *)
(***************************************************************************)
\* One caller that makes one call at a time.
Next ==
    \/ \E key \in ApiKeys, kwargs \in ConstructorKwargs :
          Construct(Absent, key, Absent, Absent, kwargs)
    \/ \E s \in SchemaArguments :
          (\A t \in SeqTasks : CanStart(t)) /\ ApplySchema(s) /\ UNCHANGED applied
    \/ \E t \in SeqTasks, b \in Batches : InferAsync(t, b, NoCallKwargs)
    \/ \E t \in SeqTasks, b \in Batches : Infer(t, b, NoCallKwargs)
    \/ \E t \in SeqTasks, in_loop \in BOOLEAN : InferNext(t, in_loop)
    \/ \E t \in SeqTasks, o \in Outcomes : Receive(t, o)
    \/ \E t \in SeqTasks : Aclose(t)

Spec == Init /\ [][Next]_vars

\* Construction and apply_schema alone, with the history of the arguments.
SchemaStateNext ==
    \/ \E key \in ApiKeys, kwargs \in ConstructorKwargs :
          Construct(Absent, key, Absent, Absent, kwargs)
    \/ \E s \in SchemaArguments :
          /\ Len(applied) < MaxApplies
          /\ ApplySchema(s)
          /\ applied' = Append(applied, s)

SchemaStateSpec == Init /\ [][SchemaStateNext]_vars

\* The schema builder alone, on every input within the bounds.
SchemaNext ==
    /\ FromExamples
    /\ UNCHANGED <<constructed, settings, api_key, response_schema,
                   structured_output, client, handles, calls, applied, registryVars>>

SchemaSpec == SchemaInit /\ [][SchemaNext]_vars

\* One caller, one single-prompt call at a time, with every configuration and
\* every set of keyword arguments within the bounds.
PayloadNext ==
    \/ \E mid \in ModelIdArguments, temp \in TemperatureArguments,
          kwargs \in SchemaKwargs :
          Construct(mid, PyStr("sk-test"), temp, Absent, kwargs)
    \/ \E verify \in VerifyArguments :
          Construct(Absent, PyStr("sk-test"), Absent, verify, NoKwargs)
    \/ \E s \in {NoSchemaInstance, [is_none |-> FALSE, schema_dict |-> FallbackSchema]} :
          (\A t \in SeqTasks : CanStart(t)) /\ ApplySchema(s) /\ UNCHANGED applied
    \/ \E t \in SeqTasks, p \in Prompts, kwargs \in CallKwargs :
          InferAsync(t, <<p>>, kwargs)
    \/ \E t \in SeqTasks, p \in Prompts, kwargs \in CallKwargs : Infer(t, <<p>>, kwargs)
    \/ \E t \in SeqTasks : InferNext(t, FALSE)
    \/ \E t \in SeqTasks : Receive(t, "ok")

PayloadSpec == Init /\ [][PayloadNext]_vars

\* Several tasks of one event loop calling the coroutines of one provider.
ConcNext ==
    \/ \E key \in ApiKeys, kwargs \in ConstructorKwargs :
          Construct(Absent, key, Absent, Absent, kwargs)
    \/ \E t \in ConcTasks, b \in ConcBatches : InferAsync(t, b, NoCallKwargs)
    \/ \E t \in ConcTasks : Aclose(t)

ConcSpec == Init /\ [][ConcNext]_vars

\* The registry of one process: plugin loading, registrations, resolutions.
RegistryNext ==
    \/ LoadPluginsOnce
    \/ \E entry \in Registrations : Register(entry)
    \/ \E id \in ModelIds : Resolve(id)

RegistrySpec == Init /\ [][RegistryNext]_vars

(***************************************************************************)
(* Properties                                                              *)
(***************************************************************************)
\* What the caller of a batch call holds: the list infer_async returned, the
\* results infer's generator has yielded, nothing from a call that raised.
Delivered(c) ==
    IF c.pc = "raised" THEN <<>>
    ELSE IF c.kind = "infer" THEN SubSeq(c.results, 1, c.yielded)
    ELSE IF c.pc = "returned" THEN c.results
    ELSE <<>>

\* The result a successful request for a prompt stands for.
ExpectedResult(prompt) == <<[score |-> 1, output |-> <<"completion of", prompt>>]>>

\* C1: when every request of a batch succeeds, infer and infer_async hand the
\* caller exactly one result per prompt, and result i is the model's response
\* to prompt i: a call outside a running loop raises only after a request of
\* its failed, and a call that has returned, or is yielding, holds the
\* responses in the order of the prompts.
C1_ResultsInPromptOrder ==
    \A t \in Tasks :
        LET c == calls[t]
        IN  /\ (c.kind \in {"infer", "infer_async"} /\ c.pc = "raised" /\ ~c.in_loop)
                 => c.last_outcome \in Outcomes \ {"ok"}
            /\ (c.kind \in {"infer", "infer_async"} /\ c.pc = "returned")
                 => /\ Len(Delivered(c)) = Len(c.prompts)
                    /\ \A i \in 1..Len(c.prompts) :
                          Delivered(c)[i] = ExpectedResult(c.prompts[i])
            /\ (c.kind = "infer" /\ c.pc = "suspended")
                 => \A i \in 1..c.yielded :
                       Delivered(c)[i] = ExpectedResult(c.prompts[i])

\* C2: when the transport fails for one prompt of a batch after other prompts
\* succeeded, the caller still gets an item for every prompt of the batch, and
\* the items of the other prompts are their successful results.
C2_FailedItemKeepsSiblings ==
    \A t \in Tasks :
        LET c == calls[t]
        IN  (c.pc = "raised" /\ c.i > 1)
              => /\ Len(Delivered(c)) = Len(c.prompts)
                 /\ \A j \in 1..Len(c.prompts) :
                       j # c.i => Delivered(c)[j] = ExpectedResult(c.prompts[j])

\* C3: construction with the API key None or empty ends in
\* InferenceConfigError with no transport handle created, no request sent and
\* no call made.
C3_NoKeyFailsBeforeAnyTransport ==
    (constructed # "no" /\ (api_key.is_none \/ api_key.text = ""))
      => /\ constructed = "config_error"
         /\ handles = <<>>
         /\ client \notin 1..Len(handles)
         /\ \A t \in Tasks : calls[t].pc = "idle" /\ calls[t].sent = 0

C3_Witness ==
    /\ constructed = "config_error"
    /\ api_key = [is_none |-> FALSE, text |-> ""]

\* C4: an infer or infer_async call that fails in a request/response cycle
\* ends with InferenceRuntimeError whose original is the exception of the
\* failure: the transport's for a network error or a timeout, the status error
\* for a non-2xx response, and for a 200 without the content the error of the
\* step of the parse that failed.
C4_FailuresAreInferenceRuntimeError ==
    \A t \in Tasks :
        LET c == calls[t]
        IN  c.kind \in {"infer", "infer_async"}
              => /\ c.pc = "raised" => c.error.kind = "InferenceRuntimeError"
                 /\ (c.pc = "raised" /\ c.last_outcome = "network_error")
                      => c.error.original = "ConnectError"
                 /\ (c.pc = "raised" /\ c.last_outcome = "timeout")
                      => c.error.original = "TimeoutException"
                 /\ (c.pc = "raised" /\ c.last_outcome \in {"non_2xx", "non_2xx_with_choices"})
                      => c.error.original = "HTTPStatusError"
                 /\ (c.pc = "raised" /\ c.last_outcome = "missing_key")
                      => c.error.original = "KeyError"
                 /\ (c.pc = "raised" /\ c.last_outcome = "empty_choices")
                      => c.error.original = "IndexError"
                 /\ (c.pc = "raised" /\ c.last_outcome = "null_message")
                      => c.error.original = "TypeError"
                 /\ (c.pc = "raised" /\ c.last_outcome \in {"number_choices", "boolean_body"})
                      => c.error.original = "TypeError"
                 /\ (c.pc = "raised" /\ c.last_outcome = "not_json")
                      => c.error.original = "JSONDecodeError"
                 /\ (c.pc = "raised" /\ c.last_outcome = "too_deep")
                      => c.error.original = "RecursionError"
                 /\ (c.pc = "raised" /\ c.last_outcome = "huge_integer")
                      => c.error.original = "ValueError"
                 /\ (c.pc = "raised" /\ c.last_outcome = "undecodable")
                      => c.error.original = "UnicodeDecodeError"
                 /\ c.last_outcome \in Outcomes \ {"ok"} => c.pc = "raised"

C4_Witness ==
    \E t \in Tasks :
        /\ calls[t].kind = "infer"
        /\ calls[t].pc = "raised"
        /\ calls[t].last_outcome = "non_2xx"
        /\ calls[t].error = [kind |-> "InferenceRuntimeError", original |-> "HTTPStatusError"]
        /\ calls[t].i = 2

\* C5: in sequential use no handle is torn down more than once, and an aclose
\* call raises nothing; one that finds no live handle (none was created, or
\* the one created is closed) returns at once and tears nothing down.
C5_CloseIdempotent ==
    /\ \A h \in 1..Len(handles) : handles[h].teardowns <= 1
    /\ \A t \in Tasks :
          calls[t].kind = "aclose"
            => /\ calls[t].error = [kind |-> "none", original |-> "none"]
               /\ calls[t].pc # "raised"
               /\ calls[t].client \notin 1..Len(handles) => calls[t].pc = "returned"

\* C6: after apply_schema(schema) followed by apply_schema(None) the provider
\* has structured_output false and response_schema None.
C6_DetachClears ==
    \A n \in 2..Len(applied) :
        (n = Len(applied) /\ ~applied[n - 1].is_none /\ applied[n].is_none)
          => /\ response_schema = [type |-> "None"]
             /\ structured_output = FALSE

C6_Witness ==
    /\ Len(applied) >= 2
    /\ ~applied[Len(applied) - 1].is_none
    /\ applied[Len(applied)].is_none
    /\ response_schema = NoSchema

\* C7: a provider on which no call was made holds no transport handle; an
\* infer_async call works on the provider's handle, which it created if there
\* was none; and no provider handle is created while another is live: an open
\* handle of the provider is its current one.
C7_LazyPersistentTransport ==
    /\ (\A t \in Tasks : calls[t].pc = "idle")
         => (client \notin 1..Len(handles) /\ handles = <<>>)
    /\ \A h \in 1..Len(handles) :
          (handles[h].owner = "provider" /\ handles[h].open) => client = h
    /\ \A t \in Tasks :
          calls[t].kind = "infer_async"
            => /\ calls[t].client \in 1..Len(handles)
               /\ calls[t].client = client
               /\ Cardinality({h \in 1..Len(handles) : handles[h].owner = "provider"}) >= 1

\* C8: a blocking infer call that runs opens a handle of its own, which is
\* never the provider's, and which is closed, by one teardown, once the call
\* has its results or has raised; no step of the call changes the provider's
\* handle or a handle the provider created.
C8_InferOwnsItsTransport ==
    /\ [](\A t \in Tasks :
            LET c == calls[t]
            IN  c.kind = "infer"
                  => /\ (c.pc \in {"await", "suspended", "returned"}
                           \/ (c.pc = "raised" /\ ~c.in_loop))
                          => /\ c.client \in 1..Len(handles)
                             /\ c.client # client
                             /\ handles[c.client].owner = "infer"
                     /\ (c.pc = "await") => handles[c.client].open
                     /\ (c.pc \in {"suspended", "returned", "raised"}
                           /\ c.client \in 1..Len(handles))
                          => /\ ~handles[c.client].open
                             /\ handles[c.client].teardowns = 1)
    /\ [][\A t \in Tasks :
            (calls'[t].kind = "infer" /\ calls'[t] # calls[t])
              => /\ client' = client
                 /\ \A h \in 1..Len(handles) :
                       handles[h].owner = "provider" => handles'[h] = handles[h]]_vars

C8_Witness ==
    \E t \in Tasks :
        /\ calls[t].kind = "infer"
        /\ calls[t].pc = "raised"
        /\ calls[t].sent = 2
        /\ calls[t].client = 2
        /\ ~handles[2].open
        /\ handles[2].teardowns = 1
        /\ ~handles[1].open

\* The extractions of the input, whatever their place in it.
InputExtractions ==
    UNION { Range(examples_data[i]) : i \in 1..Len(examples_data) }

\* The classes and the attribute keys a built schema allows.
AllowedClasses(dict) ==
    Range(dict.properties.extractions.items.properties.extraction_class.enum)
AllowedKeys(dict) ==
    LET props == dict.properties.extractions.items.properties.attributes.properties
    IN  { props[i][1] : i \in DOMAIN props }

RECURSIVE Reverse(_)
Reverse(q) == IF q = <<>> THEN <<>> ELSE Append(Reverse(Tail(q)), Head(q))

\* C9: for examples with at least one extraction the schema allows exactly the
\* classes that occur and exactly the attribute keys that occur in any
\* extraction of any class, each once; the same sets come out for the examples
\* in reverse order, for the extractions in reverse order, and for the input
\* given twice over.
C9_SchemaAllowsExactlyWhatOccurs ==
    (schema_dict # NotBuilt /\ InputExtractions # {})
      => LET enum == schema_dict.properties.extractions.items.properties.extraction_class.enum
             props == schema_dict.properties.extractions.items.properties.attributes.properties
             reordered == { Reverse(examples_data),
                            [i \in 1..Len(examples_data) |-> Reverse(examples_data[i])],
                            examples_data \o examples_data }
         IN  /\ Range(enum) = { e.extraction_class : e \in InputExtractions }
             /\ Cardinality(Range(enum)) = Len(enum)
             /\ AllowedKeys(schema_dict) = UNION { e.attributes : e \in InputExtractions }
             /\ Cardinality(AllowedKeys(schema_dict)) = Len(props)
             /\ \A other \in reordered :
                   /\ AllowedClasses(from_examples(other)) = AllowedClasses(schema_dict)
                   /\ AllowedKeys(from_examples(other)) = AllowedKeys(schema_dict)

C9_Witness ==
    /\ schema_dict # NotBuilt
    /\ Len(examples_data) = 2
    /\ examples_data[1] = <<[extraction_class |-> "B", attributes |-> {"k2"}],
                            [extraction_class |-> "B", attributes |-> {}]>>
    /\ examples_data[2] = <<[extraction_class |-> "A", attributes |-> {"k1"}]>>
    /\ AllowedClasses(schema_dict) = {"A", "B"}
    /\ AllowedKeys(schema_dict) = {"k1", "k2"}

\* C10: for zero examples from_examples returns the permissive fallback: an
\* object whose extractions property is an array of objects, with no class
\* enum, no restriction of the attribute keys and no required field.
C10_ZeroExamplesFallback ==
    (schema_dict # NotBuilt /\ examples_data = <<>>)
      => /\ DOMAIN schema_dict = {"type", "properties"}
         /\ schema_dict.type = "object"
         /\ DOMAIN schema_dict.properties = {"extractions"}
         /\ DOMAIN schema_dict.properties.extractions = {"type", "items"}
         /\ schema_dict.properties.extractions.type = "array"
         /\ DOMAIN schema_dict.properties.extractions.items = {"type"}
         /\ schema_dict.properties.extractions.items.type = "object"

C10_Witness ==
    /\ examples_data = <<>>
    /\ schema_dict # NotBuilt
    /\ schema_dict.properties.extractions.items = [type |-> "object"]

\* C15: a request asks for the JSON-object response mode
\* (response_format = {type: json_object}) exactly when a schema is attached
\* to the provider at the time the request is built, and has no
\* response_format field otherwise. While the request is in flight the
\* provider's schema is the one the payload was built under.
C15_ResponseFormatIffSchemaAttached ==
    \A t \in Tasks :
        calls[t].pc = "await"
          => /\ ("response_format" \in DOMAIN calls[t].payload)
                  <=> (response_schema # [type |-> "None"])
             /\ ("response_format" \in DOMAIN calls[t].payload)
                  => calls[t].payload["response_format"] = [type |-> "json_object"]

\* C16: every payload built carries the provider's model, one user message
\* holding the prompt, and a temperature (the caller's if supplied, else the
\* provider's); each of max_tokens, top_p, frequency_penalty and
\* presence_penalty is in it, with the caller's value, exactly when the caller
\* supplied it; and no other keyword argument of the caller is in it.
C16_PayloadFields ==
    \A t \in Tasks :
        LET c == calls[t]
            sampling == {"max_tokens", "top_p", "frequency_penalty", "presence_penalty"}
        IN  c.payload # <<>>
              => /\ {"model", "messages", "temperature"} \subseteq DOMAIN c.payload
                 /\ c.payload["model"] = model_id
                 /\ c.payload["messages"] = <<[role |-> "user", content |-> c.prompts[c.i]]>>
                 /\ c.payload["temperature"] =
                       IF "temperature" \in DOMAIN c.kwargs
                       THEN c.kwargs["temperature"] ELSE temperature
                 /\ \A k \in sampling :
                       /\ (k \in DOMAIN c.payload) <=> (k \in DOMAIN c.kwargs)
                       /\ (k \in DOMAIN c.kwargs) => c.payload[k] = c.kwargs[k]
                 /\ DOMAIN c.payload \subseteq
                       {"model", "messages", "temperature", "response_format"} \cup sampling

\* A request in flight whose caller gave top_p and a parameter that is not
\* passed on.
C16_Witness ==
    \E t \in Tasks :
        /\ calls[t].pc = "await"
        /\ DOMAIN calls[t].kwargs = {"top_p", "stop"}
        /\ calls[t].payload["top_p"] = "2"
        /\ calls[t].payload["model"] = "glm-4-air"
        /\ calls[t].payload["temperature"] = "0.7"
        /\ "stop" \notin DOMAIN calls[t].payload

\* C17: the results of a call come one from each of the 2xx responses it
\* received, in their order: a single ScoredOutput with score 1.0 whose output
\* is the content of the first choice's message; a response with another
\* status gives no result.
C17_ResultOnlyFromSuccess ==
    \A t \in Tasks :
        LET c == calls[t]
        IN  /\ Len(c.results) <= Len(c.responses)
            /\ \A i \in 1..Len(c.results) :
                  /\ c.responses[i].status_code \in 200..299
                  /\ c.responses[i].decodable
                  /\ c.responses[i].syntax = "json"
                  /\ "choices" \in DOMAIN c.responses[i].body.fields
                  /\ c.responses[i].body.fields.choices.items # <<>>
                  /\ c.results[i]
                       = <<[score |-> 1,
                            output |-> c.responses[i].body.fields.choices.items[1]
                                         .fields.message.fields.content.text]>>
            /\ \A i \in 1..Len(c.responses) :
                  c.responses[i].status_code \notin 200..299
                    => (Len(c.results) < i /\ c.pc = "raised")

\* A call that got a result from a 200 and then a 404 whose body has choices.
C17_Witness ==
    \E t \in Tasks :
        /\ calls[t].kind = "infer"
        /\ calls[t].pc = "raised"
        /\ Len(calls[t].results) = 1
        /\ Len(calls[t].responses) = 2
        /\ calls[t].responses[2].status_code = 404
        /\ calls[t].responses[2].body.fields.choices.items # <<>>

\* C18: a provider constructed without a verify_ssl argument verifies TLS, and
\* every transport opened, by infer or for the provider, was created with the
\* provider's verify_ssl.
C18_TlsVerificationSetting ==
    /\ (constructed # "no" /\ ~init_args.verify_ssl.given) => verify_ssl = "True"
    /\ (constructed # "no" /\ init_args.verify_ssl.given)
         => verify_ssl = init_args.verify_ssl.value
    /\ \A h \in 1..Len(handles) : handles[h].verify = verify_ssl

C18_Witness ==
    \E h \in 1..Len(handles) :
        /\ ~init_args.verify_ssl.given
        /\ handles[h].used
        /\ handles[h].verify = "True"

\* C11: on a registry the plugins were loaded into, in which no entry of
\* another provider matches "glm-4", resolve("glm-4") returns the GLM provider
\* class; and resolve of an id that no registered pattern matches, such as
\* "unknown-model", fails with NoProviderFound and returns no provider.
C11_ResolveGlm4AndUnknown ==
    LET es == resolved.entries
        id == resolved.model_id
    IN  /\ (/\ resolved.loaded
            /\ id = <<"g", "l", "m", "-", "4">>
            /\ \A i \in 1..Len(es) :
                  es[i].target # "GLMProviderLanguageModel" => ~Matches(es[i].pattern, id))
             => (resolved.outcome = "found" /\ resolved.target = "GLMProviderLanguageModel")
        /\ (resolved.outcome # "none" /\ \A i \in 1..Len(es) : ~Matches(es[i].pattern, id))
             => (resolved.outcome = "NoProviderFound" /\ resolved.target = "none")
        /\ id = Id_unknown => resolved.outcome = "NoProviderFound"

C11_Witness ==
    /\ resolved.loaded
    /\ resolved.model_id = Id_glm4
    /\ Len(resolved.entries) = 1
    /\ resolved.entries[1].priority = 10
    /\ resolved.target = "GLMProviderLanguageModel"

\* C12: resolve returns the target of the matching entry that has the highest
\* priority, wherever it stands in the order of registration, and among the
\* matching entries of that priority the one registered first; it fails only
\* when no entry matches.
C12_HighestPriorityThenFirstRegistered ==
    LET es == resolved.entries
        id == resolved.model_id
        matching == {i \in 1..Len(es) : Matches(es[i].pattern, id)}
    IN  resolved.outcome # "none"
          => /\ (resolved.outcome = "NoProviderFound") <=> (matching = {})
             /\ resolved.outcome = "found"
                  => \E i \in matching :
                        /\ resolved.target = es[i].target
                        /\ \A j \in matching :
                              \/ es[j].priority < es[i].priority
                              \/ (es[j].priority = es[i].priority /\ i <= j)

\* Three entries match "glm-4": two of priority 10, the GLM provider's first,
\* then one of priority 20 registered last, which wins; without it the first
\* of the two would.
C12_Witness ==
    /\ resolved.model_id = Id_glm4
    /\ Len(resolved.entries) = 3
    /\ resolved.entries[1].target = "GLMProviderLanguageModel"
    /\ resolved.entries[2].priority = 10
    /\ resolved.entries[3].priority = 20
    /\ resolved.target = "OtherLanguageModel"
    /\ resolve(SubSeq(resolved.entries, 1, 2), Id_glm4).target = "GLMProviderLanguageModel"

\* C13: however often plugin loading was requested and the GLM provider's
\* pattern/class pair registered, the registry holds exactly one entry for the
\* pair once either has happened, and no pair has two entries.
C13_RegistrationIdempotent ==
    /\ (plugins_loaded \/ requests.registers > 0)
         => Cardinality({i \in 1..Len(registry) :
                           /\ registry[i].pattern = <<"^", "g", "l", "m", "-">>
                           /\ registry[i].target = "GLMProviderLanguageModel"}) = 1
    /\ \A i, j \in 1..Len(registry) :
          (registry[i].pattern = registry[j].pattern
             /\ registry[i].target = registry[j].target) => i = j

C13_Witness ==
    /\ requests.loads = 2
    /\ requests.registers = 2
    /\ Len(registry) = 1

\* C14: with the plugins loaded and glm_model_id unset, every sample id the
\* plugin test derives from PATTERNS resolves to the class named
\* GLMProviderLanguageModel, and "unknown-model" does not.
C14_SampleIdsResolveToGlm ==
    /\ \A i \in 1..Len(PATTERNS) :
          (resolved.loaded /\ resolved.model_id = example_id(PATTERNS[i], NoEnv))
            => (resolved.outcome = "found"
                  /\ resolved.target = "GLMProviderLanguageModel")
    /\ resolved.model_id = Id_unknown => resolved.target # "GLMProviderLanguageModel"

\* C19: when two tasks have called aclose on a provider that an infer_async
\* call with a prompt was made on, no handle has been torn down more than
\* once and neither aclose call has raised.
C19_OverlappingCloseSafe ==
    \A t1, t2, t3 \in Tasks :
        (/\ t1 # t2
         /\ calls[t1].kind = "aclose"
         /\ calls[t2].kind = "aclose"
         /\ calls[t3].kind = "infer_async"
         /\ calls[t3].prompts # <<>>)
          => /\ calls[t1].pc # "raised"
             /\ calls[t2].pc # "raised"
             /\ \A h \in 1..Len(handles) : handles[h].teardowns <= 1

\* C20: when two tasks have called infer_async with a prompt on a provider,
\* exactly one transport handle of the provider has been created and both
\* calls sent their requests on it.
C20_OneTransportForConcurrentCalls ==
    \A t1, t2 \in Tasks :
        (/\ t1 # t2
         /\ calls[t1].kind = "infer_async"
         /\ calls[t2].kind = "infer_async"
         /\ calls[t1].prompts # <<>>
         /\ calls[t2].prompts # <<>>)
          => /\ Cardinality({h \in 1..Len(handles) : handles[h].owner = "provider"}) = 1
             /\ calls[t1].client \in 1..Len(handles)
             /\ calls[t1].client = calls[t2].client
             /\ calls[t1].sent >= 1
             /\ calls[t2].sent >= 1

\* C21: infer_async calls of several tasks on one provider are safe: a call
\* that met no failing request is not rejected, and it returns one result per
\* prompt of its own batch, result i being the response to its prompt i.
C21_ConcurrentCallsIsolated ==
    \A t1, t2 \in Tasks :
        LET c == calls[t1]
        IN  (/\ t1 # t2
             /\ c.kind = "infer_async"
             /\ calls[t2].kind = "infer_async"
             /\ c.pc \in {"returned", "raised"}
             /\ c.last_outcome \in {"none", "ok"})
              => /\ c.pc = "returned"
                 /\ Len(c.results) = Len(c.prompts)
                 /\ \A i \in 1..Len(c.prompts) :
                       c.results[i] = ExpectedResult(c.prompts[i])

\* C24: a batch call never sends more requests than it has prompts, also when
\* requests fail: one request for each prompt that completed, and at most one
\* more, for the prompt in flight or the prompt that failed.
C24_NoRetry ==
    \A t \in Tasks :
        LET c == calls[t]
        IN  c.kind \in {"infer", "infer_async"}
              => /\ c.sent <= Len(c.prompts)
                 /\ Len(c.results) <= c.sent
                 /\ c.sent <= Len(c.results) + 1
                 /\ c.pc \in {"suspended", "returned"} => c.sent = Len(c.results)

C24_Witness ==
    \E t \in Tasks :
        /\ calls[t].pc = "raised"
        /\ calls[t].last_outcome = "timeout"
        /\ Len(calls[t].prompts) = 3
        /\ calls[t].sent = 2
        /\ Len(calls[t].results) = 1

\* C25: a step of apply_schema, which is the only one that changes the schema
\* state of a constructed provider, changes nothing else: the provider's
\* handle, every transport and every call are as they were.
C25_ApplySchemaFrame ==
    [][(constructed = "ok"
          /\ <<response_schema, structured_output>>' # <<response_schema, structured_output>>)
         => /\ client' = client
            /\ handles' = handles
            /\ calls' = calls
            /\ <<constructed, init_args, model_id, api_key, temperature, verify_ssl>>'
                 = <<constructed, init_args, model_id, api_key, temperature, verify_ssl>>]_vars

\* A schema attached by apply_schema to a provider whose blocking call has
\* opened and closed a transport.
C25_Witness ==
    /\ structured_output
    /\ ~init_args.kwargs.has_structured_output
    /\ Len(handles) >= 1
    /\ handles[1].used
    /\ client \notin 1..Len(handles)

\* C26: the requests of a batch call are those for a prefix of its prompts, in
\* their order; while one is in flight every earlier prompt has its result, so
\* at most one is in flight; and a call that failed has sent no request after
\* the one for the failing prompt.
C26_RequestsInOrderOneAtATime ==
    \A t \in Tasks :
        LET c == calls[t]
        IN  c.kind \in {"infer", "infer_async"}
              => /\ Len(c.posted) <= Len(c.prompts)
                 /\ c.posted = SubSeq(c.prompts, 1, Len(c.posted))
                 /\ c.pc = "await"
                      => /\ Len(c.posted) = Len(c.results) + 1
                         /\ Len(c.responses) = Len(c.results)
                 /\ (c.pc = "raised" /\ c.last_outcome \notin {"none", "ok"})
                      => Len(c.posted) = Len(c.results) + 1
                 /\ c.pc \in {"suspended", "returned"} => Len(c.posted) = Len(c.results)

C26_Witness ==
    \E t \in Tasks :
        /\ calls[t].prompts = <<"a", "b", "a">>
        /\ calls[t].pc = "raised"
        /\ calls[t].last_outcome = "empty_choices"
        /\ calls[t].posted = <<"a", "b">>

\* C27: infer sends nothing before its iterator is first advanced; it yields
\* only when every prompt of the batch has its response and its transport is
\* closed; and a call that raised has yielded nothing.
C27_InferLazyAllOrNothing ==
    \A t \in Tasks :
        LET c == calls[t]
        IN  c.kind = "infer"
              => /\ c.pc = "created"
                      => (c.sent = 0 /\ c.payload = <<>> /\ c.client \notin 1..Len(handles))
                 /\ c.yielded > 0
                      => /\ Len(c.results) = Len(c.prompts)
                         /\ Len(c.responses) = Len(c.prompts)
                         /\ c.sent = Len(c.prompts)
                         /\ ~handles[c.client].open
                 /\ c.pc \in {"raised", "await", "created"} => c.yielded = 0

C27_Witness ==
    \E t \in Tasks :
        /\ calls[t].kind = "infer"
        /\ calls[t].pc = "suspended"
        /\ calls[t].yielded = 1
        /\ Len(calls[t].prompts) = 3
        /\ handles[calls[t].client].teardowns = 1

\* C28: infer advanced inside a running event loop ends with
\* InferenceRuntimeError whose original is the loop's RuntimeError, having
\* opened no transport and sent no request: the step that raises leaves every
\* handle as it was.
C28_InferInsideRunningLoop ==
    /\ [](\A t \in Tasks :
            (calls[t].kind = "infer" /\ calls[t].in_loop)
              => /\ calls[t].pc = "raised"
                 /\ calls[t].error = [kind |-> "InferenceRuntimeError",
                                      original |-> "RuntimeError"]
                 /\ calls[t].sent = 0
                 /\ calls[t].payload = <<>>
                 /\ calls[t].client \notin 1..Len(handles))
    /\ [][\A t \in Tasks :
            (calls'[t].in_loop /\ calls'[t] # calls[t])
              => (handles' = handles /\ client' = client)]_vars

C28_Witness ==
    \E t \in Tasks :
        /\ calls[t].kind = "infer"
        /\ calls[t].in_loop
        /\ calls[t].pc = "raised"
        /\ calls[t].prompts = <<"a", "b">>
        /\ Len(handles) = 1

\* C29: a provider is usable after close: where an aclose call and an
\* infer_async call with a prompt have both been made, the aclose call has not
\* raised, and the infer_async call sent its requests on a handle of the
\* provider that was open when it did.
C29_UsableAfterClose ==
    \A t1, t2 \in Tasks :
        (/\ calls[t1].kind = "aclose"
         /\ calls[t2].kind = "infer_async"
         /\ calls[t2].prompts # <<>>)
          => /\ calls[t1].pc # "raised"
             /\ calls[t2].client \in 1..Len(handles)
             /\ calls[t2].sent >= 1
             /\ calls[t2].error.original \notin {"AttributeError", "RuntimeError"}

\* C30: for a provider constructed without schema arguments, after any
\* apply_schema calls structured_output is true exactly when response_schema
\* is not None, and response_schema is the schema dictionary of the last
\* schema applied, or None if the last argument was None or nothing was
\* applied.
C30_FlagMatchesSchema ==
    (/\ constructed = "ok"
     /\ ~init_args.kwargs.has_response_schema
     /\ ~init_args.kwargs.has_structured_output)
      => /\ structured_output <=> (response_schema # [type |-> "None"])
         /\ applied = <<>> => response_schema = [type |-> "None"]
         /\ applied # <<>>
              => response_schema =
                   IF applied[Len(applied)].is_none THEN [type |-> "None"]
                   ELSE applied[Len(applied)].schema_dict

\* The zero-example fallback schema applied after a detach.
C30_Witness ==
    /\ ~init_args.kwargs.has_response_schema
    /\ Len(applied) = 3
    /\ applied[2].is_none
    /\ ~applied[3].is_none
    /\ applied[3].schema_dict = FallbackSchema
    /\ structured_output
    /\ response_schema = applied[3].schema_dict

====
